---- MODULE Spec2Model ----
(***************************************************************************)
(* Model of src/frontend/src/App.tsx: the App component's state (the five  *)
(* useState cells), the handleSubmit handler with its three suspension     *)
(* points (await fetch, await res.text(), await res.json()), the two       *)
(* onChange handlers and the JSX of the results card.                      *)
(*                                                                         *)
(* JavaScript values are a tagged union; strings are TLA+ strings.         *)
(***************************************************************************)
EXTENDS Integers, Sequences, FiniteSets, TLC

VARIABLES dbPath, question, loading, error, response, calls

vars == <<dbPath, question, loading, error, response, calls>>

(***************************************************************************)
(* Bounds of the model.                                                    *)
(***************************************************************************)
\* handleSubmit invocations per behaviour of Spec.
MaxCalls == 2
\* handleSubmit invocations per behaviour of RenderSpec.
MaxRenderCalls == 1

(***************************************************************************)
(* JavaScript values.                                                      *)
(***************************************************************************)
JsNull == [t |-> "null"]
Undefined == [t |-> "undefined"]
Str(s) == [t |-> "string", v |-> s]
Num(n) == [t |-> "number", v |-> n]
Bool(b) == [t |-> "boolean", v |-> b]
Fn(name) == [t |-> "function", v |-> name]
Arr(seq) == [t |-> "array", v |-> seq]
Obj(props) == [t |-> "object", v |-> props]

\* Members every object parsed from JSON inherits from Object.prototype,
\* with the name of the function each one holds.
ObjectPrototype == [constructor |-> "Object", toString |-> "toString"]

\* o[key] / o.key : own property, else the prototype chain, else undefined.
\* Reading a property of null or undefined throws (TypeError).
Throws(o) == o.t \in {"null", "undefined"}
GetProp(o, key) ==
    IF o.t = "object" /\ key \in DOMAIN o.v THEN o.v[key]
    ELSE IF o.t = "object" /\ key \in DOMAIN ObjectPrototype
         THEN Fn(ObjectPrototype[key])
    ELSE Undefined

\* ToBoolean, as used by `a && b`, `!a`, `a || b`.
Truthy(x) ==
    CASE x.t \in {"null", "undefined"} -> FALSE
      [] x.t = "string" -> x.v # ""
      [] x.t = "number" -> x.v # 0
      [] x.t = "boolean" -> x.v
      [] OTHER -> TRUE

\* a ?? b
Coalesce(a, b) == IF a.t \in {"null", "undefined"} THEN b ELSE a

\* String(x)
JsString(x) ==
    CASE x.t = "string" -> x.v
      [] x.t = "number" -> ToString(x.v)
      [] x.t = "boolean" -> (IF x.v THEN "true" ELSE "false")
      [] x.t = "null" -> "null"
      [] x.t = "undefined" -> "undefined"
      [] x.t = "function" -> "function " \o x.v \o "() { [native code] }"
      [] OTHER -> "[object Object]"

(***************************************************************************)
(* The network: what fetch('/api/nl-query') can settle with.               *)
(***************************************************************************)
NoRes == [kind |-> "none"]
\* fetch rejects: no response was obtained.
Rejected(msg) == [kind |-> "reject", message |-> msg]
\* fetch resolves with a Response: status, body as text, body as parsed by
\* res.json() (NotJson when the body is not JSON: res.json() rejects).
NotJson == [t |-> "syntaxerror"]
SyntaxErrorMessage == "Unexpected token < in JSON at position 0"
Http(status, text, json) ==
    [kind |-> "http", status |-> status, text |-> text, json |-> json]
\* Response.ok
ResOk(res) == res.status >= 200 /\ res.status <= 299

\* Rows and payloads used as inputs.
Row1 == Obj([a |-> Num(1), b |-> JsNull])
Row2 == Obj([a |-> Num(2)])
Row3 == Obj([a |-> Str("x"), c |-> Bool(TRUE)])

Data(sql, columns, rows) ==
    Obj([sql |-> Str(sql), columns |-> Arr(columns), rows |-> Arr(rows)])
WithProp(o, key, val) ==
    Obj([k \in DOMAIN o.v \cup {key} |-> IF k = key THEN val ELSE o.v[k]])
WithoutProp(o, key) == Obj([k \in DOMAIN o.v \ {key} |-> o.v[k]])

PayloadA == Data("SELECT a, b FROM t", <<"a", "b">>, <<Row1, Row2>>)
PayloadB == Data("SELECT a FROM u", <<"a">>, <<>>)
PayloadNoColumns == WithoutProp(PayloadA, "columns")

\* The replies of Spec: one per way handleSubmit can end.
LifecycleReplies ==
    { Rejected("Failed to fetch"),
      Http(404, "db not found", NotJson),
      Http(500, "", NotJson),
      Http(200, "", PayloadA),
      Http(200, "", PayloadNoColumns),
      Http(200, "", JsNull) }

\* The replies of RenderSpec: 2xx replies over a grid of payload shapes.
ColumnLists ==
    { <<>>, <<"a">>, <<"a", "b">>, <<"b", "a">>, <<"a", "constructor">> }
RowLists == { <<>>, <<Row1, Row2>>, <<Row3>> }
\* Undefined stands for a payload with no summary key.
Summaries == { Undefined, JsNull, Str(""), Str(" "), Str(" \n"),
               Str("| a | b |\n|---|---|\n|1|2|") }
RenderPayloads ==
    { Data("SELECT 1", c, r) : c \in ColumnLists, r \in RowLists }
    \cup { WithProp(Data("SELECT 1", <<"a">>, r), "summary", s) :
             r \in { <<>>, <<Row3>> }, s \in Summaries \ {Undefined} }
RenderReplies ==
    LifecycleReplies
    \cup { Http(200, "", PayloadB), Http(200, "<html>", NotJson) }
    \cup { Http(200, "", p) : p \in RenderPayloads }
    \cup { Http(200, "", WithoutProp(Data("SELECT 1", <<"a">>, r), "columns")) :
             r \in RowLists }
    \cup { Http(200, "", WithoutProp(Data("SELECT 1", <<"a">>, <<>>), "rows")) }

\* The initial field values (lines 13-14), abbreviated.
InitialDbPath == "sample.db"
InitialQuestion == "Show all customers"
\* Values typed into the two form fields: each field is blanked or restored.
DbPathValues == { "", InitialDbPath }
QuestionValues == { " ", InitialQuestion }

(***************************************************************************)
(* The JSX (lines 53-155) as the tree it renders.                          *)
(***************************************************************************)
\* Line 128: String((row as any)[col] ?? '')
RenderCell(row, col) == JsString(Coalesce(GetProp(row, col), Str("")))

CrashedTable ==
    [crashed |-> TRUE, placeholder |-> FALSE, table |-> FALSE,
     header |-> <<>>, body |-> <<>>]
NoTable ==
    [crashed |-> FALSE, placeholder |-> FALSE, table |-> FALSE,
     header |-> <<>>, body |-> <<>>]

\* RenderTable with line 113 testing response.columns.length instead of
\* response.rows.length.
RenderTableTestsColumns(resp) ==
    LET rows == GetProp(resp, "rows")
        cols == GetProp(resp, "columns")
    IN  IF Throws(cols) THEN CrashedTable
        ELSE IF Len(cols.v) = 0
        THEN [crashed |-> FALSE, placeholder |-> TRUE, table |-> FALSE,
              header |-> <<>>, body |-> <<>>]
        ELSE IF Throws(rows) THEN CrashedTable
        ELSE [crashed |-> FALSE, placeholder |-> FALSE, table |-> TRUE,
              header |-> cols.v,
              body |-> [i \in 1..Len(rows.v) |->
                          [j \in 1..Len(cols.v) |->
                              RenderCell(rows.v[i], cols.v[j])]]]

\* Lines 111-135: the "No rows returned." placeholder or the results table
\* (header cells, then one sequence of cells per <tr>).  response.rows.length
\* and response.columns.map throw when the property is missing.
RenderTable(resp) ==
    LET rows == GetProp(resp, "rows")
        cols == GetProp(resp, "columns")
    IN  IF Throws(rows) THEN CrashedTable
        ELSE IF Len(rows.v) = 0
        THEN [crashed |-> FALSE, placeholder |-> TRUE, table |-> FALSE,
              header |-> <<>>, body |-> <<>>]
        ELSE IF Throws(cols) THEN CrashedTable
        ELSE [crashed |-> FALSE, placeholder |-> FALSE, table |-> TRUE,
              header |-> cols.v,
              body |-> [i \in 1..Len(rows.v) |->
                          [j \in 1..Len(cols.v) |->
                              RenderCell(rows.v[i], cols.v[j])]]]

\* Lines 137-144: the summary block and the markdown source it is given.
RenderSummary(resp) ==
    LET summary == GetProp(resp, "summary")
    IN  [shown |-> Truthy(summary),
         markdown |-> IF Truthy(summary) THEN JsString(summary) ELSE ""]

\* The submit button (line 90).
SubmitDisabled == loading

\* The whole tree.  A throw while rendering unmounts it (no error boundary).
View ==
    LET table == IF Truthy(response) THEN RenderTable(response) ELSE NoTable
    IN  [crashed |-> table.crashed,
         submitDisabled |-> SubmitDisabled,
         banner |-> Truthy(error) /\ ~table.crashed,
         bannerText |-> IF Truthy(error) /\ ~table.crashed
                        THEN JsString(error) ELSE "",
         idle |-> ~Truthy(response) /\ ~Truthy(error) /\ ~loading,
         result |-> Truthy(response) /\ ~table.crashed,
         table |-> table,
         summary |-> IF Truthy(response) /\ ~table.crashed
                     THEN RenderSummary(response)
                     ELSE [shown |-> FALSE, markdown |-> ""]]

(***************************************************************************)
(* State after construction (lines 13-17).                                 *)
(***************************************************************************)
Init ==
    /\ dbPath = InitialDbPath
    /\ question = InitialQuestion
    /\ loading = FALSE
    /\ error = JsNull
    /\ response = JsNull
    /\ calls = <<>>

(***************************************************************************)
(* handleSubmit (lines 19-51), one entry of `calls` per invocation.        *)
(***************************************************************************)
NoOutcome == [kind |-> "none"]
Succeeded(data) == [kind |-> "success", data |-> data]
Failed(msg) == [kind |-> "error", message |-> msg]

InFlight(c) == c.pc # "done"
AnyInFlight == \E i \in 1..Len(calls) : InFlight(calls[i])

\* RequestBody with the two fields sent under each other's key.
RequestBodySwapsFields ==
    [db_path |-> question, question |-> dbPath,
     dialect |-> "sqlite", max_tokens |-> 512]

\* JSON.stringify({...}) of lines 31-36, as the object it encodes.
RequestBody ==
    [db_path |-> dbPath, question |-> question,
     dialect |-> "sqlite", max_tokens |-> 512]

\* Lines 20-37: the synchronous part up to `await fetch(...)`.  The handler
\* is the form's onSubmit (line 67): via "button" is a click on the submit
\* button (or implicit submission through it), possible only while it is
\* enabled; via "form" is a submit event dispatched on the form itself
\* (form.requestSubmit(), a test's fireEvent.submit), which the disabled
\* button does not prevent.  handleSubmit itself tests nothing.  Once a
\* render has thrown there is no form left to receive events.
Submit(via, max) ==
    /\ Len(calls) < max
    /\ ~View.crashed
    /\ via = "button" => ~SubmitDisabled
    /\ loading' = TRUE
    /\ error' = JsNull
    /\ response' = JsNull
    /\ calls' = Append(calls, [body |-> RequestBody, pc |-> "fetch",
                               res |-> NoRes, outcome |-> NoOutcome,
                               overlapped |-> AnyInFlight])
    /\ UNCHANGED <<dbPath, question>>

\* catch + finally (lines 46-50) of invocation i, err.message = msg.
CatchFinally(i, msg) ==
    /\ error' = Coalesce(msg, Str("Unknown error"))
    /\ loading' = FALSE
    /\ calls' = [calls EXCEPT ![i].pc = "done", ![i].res = NoRes,
                              ![i].outcome = Failed(Coalesce(msg, Str("Unknown error")))]
    /\ UNCHANGED <<dbPath, question, response>>

\* `await fetch(...)` of invocation i settles with r (lines 26-39, 44).
FetchSettles(i, r) ==
    /\ i \in 1..Len(calls)
    /\ calls[i].pc = "fetch"
    /\ IF r.kind = "reject"
       THEN CatchFinally(i, Str(r.message))
       ELSE /\ calls' = [calls EXCEPT ![i].res = r,
                                      ![i].pc = IF ResOk(r) THEN "json" ELSE "text"]
            /\ UNCHANGED <<dbPath, question, loading, error, response>>

\* Line 41: text || `Request failed with status ${res.status}`
FailureMessage(res) ==
    IF Truthy(Str(res.text))
    THEN Str(res.text)
    ELSE Str("Request failed with status " \o ToString(res.status))

\* `await res.text()` of invocation i settles (lines 40-41, 46-50).
TextSettles(i) ==
    /\ i \in 1..Len(calls)
    /\ calls[i].pc = "text"
    /\ CatchFinally(i, FailureMessage(calls[i].res))

\* `await res.json()` of invocation i settles (lines 44-50).
JsonSettles(i) ==
    /\ i \in 1..Len(calls)
    /\ calls[i].pc = "json"
    /\ IF calls[i].res.json = NotJson
       THEN CatchFinally(i, Str(SyntaxErrorMessage))
       ELSE /\ response' = calls[i].res.json
            /\ loading' = FALSE
            /\ calls' = [calls EXCEPT ![i].pc = "done", ![i].res = NoRes,
                                      ![i].outcome = Succeeded(calls[i].res.json)]
            /\ UNCHANGED <<dbPath, question, error>>

(***************************************************************************)
(* The onChange handlers (lines 73 and 83).                                *)
(***************************************************************************)
SetDbPath(v) ==
    /\ ~View.crashed
    /\ dbPath' = v
    /\ UNCHANGED <<question, loading, error, response, calls>>

\* SetQuestion that also dismisses the displayed error.
SetQuestionClearsError(v) ==
    /\ ~View.crashed
    /\ question' = v
    /\ error' = JsNull
    /\ UNCHANGED <<dbPath, loading, response, calls>>

SetQuestion(v) ==
    /\ ~View.crashed
    /\ question' = v
    /\ UNCHANGED <<dbPath, loading, error, response, calls>>

(***************************************************************************)
(* Specifications.                                                         *)
(***************************************************************************)
Next ==
    \/ \E via \in {"button", "form"} : Submit(via, MaxCalls)
    \/ \E i \in 1..MaxCalls, r \in LifecycleReplies : FetchSettles(i, r)
    \/ \E i \in 1..MaxCalls : TextSettles(i)
    \/ \E i \in 1..MaxCalls : JsonSettles(i)
    \/ \E v \in DbPathValues : SetDbPath(v)
    \/ \E v \in QuestionValues : SetQuestion(v)

Spec == Init /\ [][Next]_vars

\* One submission at a time, over the wide input sets.
RenderNext ==
    \/ \E via \in {"button", "form"} : Submit(via, MaxRenderCalls)
    \/ \E i \in 1..MaxRenderCalls, r \in RenderReplies : FetchSettles(i, r)
    \/ \E i \in 1..MaxRenderCalls : TextSettles(i)
    \/ \E i \in 1..MaxRenderCalls : JsonSettles(i)
    \/ \E v \in DbPathValues : SetDbPath(v)
    \/ \E v \in QuestionValues : SetQuestion(v)

RenderSpec == Init /\ [][RenderNext]_vars

\* Spec with the scheduling the platform gives: a pending promise that can
\* settle does settle (every fetch ends in a response or a rejection, and
\* the body reads that follow it end).
FairSpec ==
    /\ Spec
    /\ WF_vars(\E i \in 1..MaxCalls, r \in LifecycleReplies : FetchSettles(i, r))
    /\ WF_vars(\E i \in 1..MaxCalls : TextSettles(i))
    /\ WF_vars(\E i \in 1..MaxCalls : JsonSettles(i))

(***************************************************************************)
(* Vocabulary of the properties.                                           *)
(***************************************************************************)
IsSpace(ch) == ch \in {" ", "\n", "\t"}
RECURSIVE TrimStart(_)
TrimStart(s) ==
    IF Len(s) > 0 /\ IsSpace(SubSeq(s, 1, 1))
    THEN TrimStart(SubSeq(s, 2, Len(s))) ELSE s
RECURSIVE TrimEnd(_)
TrimEnd(s) ==
    IF Len(s) > 0 /\ IsSpace(SubSeq(s, Len(s), Len(s)))
    THEN TrimEnd(SubSeq(s, 1, Len(s) - 1)) ELSE s
Trim(s) == TrimEnd(TrimStart(s))
IsBlank(s) == Trim(s) = ""

Latest == calls[Len(calls)]
AllSettled == Len(calls) > 0 /\ ~AnyInFlight
\* Invocation i ends in this step.
SettlesNow(i) ==
    /\ i \in 1..Len(calls)
    /\ InFlight(calls[i])
    /\ ~InFlight(calls'[i])

\* What a submission's outcome alone would display.
OutcomeResponse(o) == IF o.kind = "success" THEN o.data ELSE JsNull
OutcomeError(o) == IF o.kind = "error" THEN o.message ELSE JsNull

ShowsSuccess == response # JsNull /\ error = JsNull
ShowsError == error # JsNull /\ response = JsNull

\* ResultModel.validate of the specification: sql a string, columns a
\* sequence of strings, rows a sequence of mappings.
ValidPayload(p) ==
    /\ p.t = "object"
    /\ GetProp(p, "sql").t = "string"
    /\ GetProp(p, "columns").t = "array"
    /\ GetProp(p, "rows").t = "array"
    /\ \A i \in 1..Len(GetProp(p, "rows").v) : GetProp(p, "rows").v[i].t = "object"

(***************************************************************************)
(* Request lifecycle.                                                      *)
(***************************************************************************)
\* C1: when a submission was issued while an earlier one was still in
\* flight, then once every submission has settled the displayed response
\* and error are exactly the outcome of the submission issued last, for
\* every arrival order and every combination of outcomes.
C1_LatestOutcomeWins ==
    (Len(calls) >= 2 /\ Latest.overlapped /\ AllSettled)
        => /\ response = OutcomeResponse(Latest.outcome)
           /\ error = OutcomeError(Latest.outcome)

\* C2 (final state): once every submission has settled, and all of them
\* were valid (question and locator non-blank), the controller is not
\* Pending and shows exactly one of Success (response set, error null) and
\* Error (error set, response null).
C2_SettlesInExactlyOne ==
    (/\ AllSettled
     /\ \A i \in 1..Len(calls) :
            ~IsBlank(calls[i].body.question) /\ ~IsBlank(calls[i].body.db_path))
        => /\ ~loading
           /\ (ShowsSuccess \/ ShowsError)

\* C3: from a state in which the question or the locator is empty after
\* trimming, no step issues a network call (a submit there fails locally).
C3_BlankSubmitIssuesNoCall ==
    [][(IsBlank(question) \/ IsBlank(dbPath)) => Len(calls') = Len(calls)]_vars

\* C4: in every reachable state at most one of response and error is
\* non-null.
C4_AtMostOneOutcome == ~(response # JsNull /\ error # JsNull)

\* C5: while the submission issued last is still in flight, a step in which
\* an older submission settles (with a success or with an error) leaves
\* response, error and the pending flag unchanged.
C5_StaleOutcomeSuppressed ==
    [][(\E i \in 1..(Len(calls) - 1) : SettlesNow(i) /\ InFlight(Latest))
          => UNCHANGED <<response, error, loading>>]_vars

\* C6: a step in which a non-2xx reply's handling ends leaves the
\* controller in Error: response is null and the error message is the reply
\* body when that is non-empty, else a message derived from the status.
C6_Non2xxEndsInError ==
    [][\A i \in 1..Len(calls) :
          (calls[i].pc = "text" /\ SettlesNow(i))
              => /\ response' = JsNull
                 /\ error' = Str(IF calls[i].res.text # ""
                                 THEN calls[i].res.text
                                 ELSE "Request failed with status "
                                          \o ToString(calls[i].res.status))]_vars

\* C7: a payload that fails validation is never stored as the displayed
\* response.
C7_InvalidPayloadNeverDisplayed == response # JsNull => ValidPayload(response)

(***************************************************************************)
(* Rendering.                                                              *)
(***************************************************************************)
Columns == GetProp(response, "columns").v
Rows == GetProp(response, "rows").v
\* The cell the specification asks for: the string form of the row's own,
\* non-null value under the column, else the empty string.
ExpectedCell(row, col) ==
    IF col \in DOMAIN row.v /\ row.v[col].t \notin {"null", "undefined"}
    THEN JsString(row.v[col]) ELSE ""

\* C8: for a displayed valid response with n columns and m >= 1 rows the
\* grid has m rows of n cells in the order of columns, cell (i,j) being the
\* string form of rows[i][columns[j]] when that key is present and non-null
\* and the empty string otherwise.
C8_GridProjectsColumns ==
    (ValidPayload(response) /\ Len(Rows) >= 1)
        => /\ View.table.table
           /\ View.table.header = Columns
           /\ View.table.body =
                  [i \in 1..Len(Rows) |->
                      [j \in 1..Len(Columns) |-> ExpectedCell(Rows[i], Columns[j])]]

\* C9: whenever the displayed response has zero rows, whatever its columns,
\* the "no rows" placeholder is shown and no grid; a grid is rendered only
\* for a displayed response with at least one row.
C9_NoRowsPlaceholder ==
    /\ (Truthy(response) /\ GetProp(response, "rows").t = "array" /\ Len(Rows) = 0)
           => (View.table.placeholder /\ ~View.table.table)
    /\ View.table.table
           => (Truthy(response) /\ GetProp(response, "rows").t = "array"
               /\ Len(Rows) > 0 /\ ~View.table.placeholder)

\* C9 witness: a response with no rows and no columns is displayed as the
\* placeholder.
C9_Witness ==
    /\ Truthy(response)
    /\ ValidPayload(response)
    /\ Rows = <<>>
    /\ Columns = <<>>
    /\ View.table.placeholder

\* C10: the summary block is rendered if and only if the displayed
\* response's summary is a string that is non-empty after trimming.
C10_SummaryIffNonBlank ==
    View.result
        => (View.summary.shown
               <=> /\ GetProp(response, "summary").t = "string"
                   /\ ~IsBlank(GetProp(response, "summary").v))

(***************************************************************************)
(* Pending flag, submits and requests.                                     *)
(***************************************************************************)
\* C11: whenever the submission issued last has not yet settled, the
\* pending flag is true and the submit control is disabled, also after an
\* older overlapping submission has settled.
C11_DisabledWhilePending ==
    (Len(calls) > 0 /\ InFlight(Latest)) => (loading /\ View.submitDisabled)

\* A submit the specification accepts: question and locator are non-empty
\* after trimming (dialect and max_tokens are fixed and valid).
AcceptedBody(body) == ~IsBlank(body.question) /\ ~IsBlank(body.db_path)
\* The network calls issued so far, and those among them that belong to an
\* accepted submit.
IssuedCalls == 1..Len(calls)
AcceptedCalls == { i \in 1..Len(calls) : AcceptedBody(calls[i].body) }

\* C12: the number of network calls issued always equals the number of
\* accepted submits: every call issued belongs to a submit that was accepted.
C12_OneCallPerAcceptedSubmit ==
    Cardinality(IssuedCalls) = Cardinality(AcceptedCalls)

\* C13: a step in which a transport failure (fetch yields no response) ends
\* a submission leaves the controller in Error: error non-null, response
\* null, pending flag cleared, the banner shown and the submit control
\* enabled.
C13_TransportFailureEndsInError ==
    [][\A i \in 1..Len(calls) :
          (calls[i].pc = "fetch" /\ SettlesNow(i))
              => /\ error' # JsNull
                 /\ response' = JsNull
                 /\ ~loading'
                 /\ View'.banner
                 /\ ~View'.submitDisabled]_vars

\* What identifies a submission in the code: handleSubmit keeps nothing of
\* its own but the request it sent.
SubmissionTag(c) == c.body

\* C14: every submission carries an identifier different from that of every
\* earlier submission (identifiers are never reused).
C14_IdentifiersNeverReused ==
    \A i, j \in 1..Len(calls) :
        i < j => SubmissionTag(calls[i]) # SubmissionTag(calls[j])

\* C15: for a displayed valid response with no columns and at least one
\* row, rendering does not fail and renders no header cells, no data cells
\* and no row elements.
C15_NoColumnsRendersNothing ==
    (ValidPayload(response) /\ Columns = <<>> /\ Len(Rows) >= 1)
        => /\ ~View.crashed
           /\ View.table.header = <<>>
           /\ View.table.body = <<>>

\* C16: the request of a submission is the locator and question the form
\* held at the moment of that submit, with dialect 'sqlite' and max_tokens
\* 512, and no later step (an edit of a field included) changes a request
\* already issued.
C16_RequestFixedAtSubmit ==
    [][/\ \A i \in 1..Len(calls) : calls'[i].body = calls[i].body
       /\ Len(calls') > Len(calls)
              => calls'[Len(calls')].body =
                     [db_path |-> dbPath, question |-> question,
                      dialect |-> "sqlite", max_tokens |-> 512]]_vars

\* C16 witness: the question was edited while a request that carries the
\* earlier question is in flight.
C16_Witness ==
    \E i \in 1..Len(calls) :
        /\ InFlight(calls[i])
        /\ calls[i].body.question = InitialQuestion
        /\ question # InitialQuestion

\* C17: a step that changes the locator or the question changes nothing
\* else: the other field, the pending flag, error, response and every
\* in-flight request stay as they are.
C17_EditChangesOnlyItsField ==
    [][/\ dbPath' # dbPath
              => UNCHANGED <<question, loading, error, response, calls>>
       /\ question' # question
              => UNCHANGED <<dbPath, loading, error, response, calls>>]_vars

\* C17 witness: the locator was edited after a submission had ended in
\* Error, and the error is still displayed with the pending flag clear.
C17_Witness ==
    /\ Len(calls) = 1
    /\ calls[1].outcome.kind = "error"
    /\ calls[1].body.db_path = InitialDbPath
    /\ dbPath # InitialDbPath
    /\ error # JsNull
    /\ ~loading

\* C18: the idle placeholder is shown exactly when response is null, error
\* is null and no request is pending (the submission issued last, if any,
\* has settled); it is never shown with a result, with the error banner or
\* while the latest request is in flight.
C18_IdlePlaceholder ==
    /\ View.idle <=> /\ response = JsNull
                     /\ error = JsNull
                     /\ ~loading
                     /\ (Len(calls) > 0 => ~InFlight(Latest))
    /\ View.idle => (~View.result /\ ~View.banner)

(***************************************************************************)
(* Supporting facts: the parts of the statements above that the code does  *)
(* satisfy.                                                                *)
(***************************************************************************)
\* Under FairSpec every in-flight submission settles and the pending flag
\* is cleared.
Fact_PendingEnds == AnyInFlight ~> (~AnyInFlight /\ ~loading)

\* A submit sets the pending flag in the same step.
Fact_SubmitSetsPending == [][Len(calls') > Len(calls) => loading']_vars

\* As long as no submission was issued while another was in flight: at
\* most one of response and error is non-null; the pending flag is true
\* while the submission is in flight; a settled submission shows exactly
\* one of response and error unless its 200 reply carried the JSON value
\* null; and a transport failure ends in Error with response null.
NoOverlap == \A i \in 1..Len(calls) : ~calls[i].overlapped
Fact_NoOverlapOneOutcome ==
    NoOverlap
        => /\ C4_AtMostOneOutcome
           /\ C11_DisabledWhilePending
           /\ (AllSettled /\ Latest.outcome # Succeeded(JsNull))
                  => (~loading /\ (ShowsSuccess \/ ShowsError))
Fact_NoOverlapTransportFailure ==
    [][NoOverlap =>
          \A i \in 1..Len(calls) :
              (calls[i].pc = "fetch" /\ SettlesNow(i))
                  => /\ error' # JsNull
                     /\ response' = JsNull
                     /\ ~loading'
                     /\ View'.banner
                     /\ ~View'.submitDisabled]_vars

\* Every step that starts a submission starts exactly one, sets the pending
\* flag and clears response and error, whatever the state before.
Fact_SubmitResets ==
    [][Len(calls') # Len(calls)
          => /\ Len(calls') = Len(calls) + 1
             /\ calls'[Len(calls')].pc = "fetch"
             /\ loading'
             /\ response' = JsNull
             /\ error' = JsNull]_vars

\* The idle placeholder is shown exactly when response, error and the
\* pending flag are all clear, and never next to a result or the banner.
Fact_IdleIffFlagsClear ==
    /\ View.idle <=> (response = JsNull /\ error = JsNull /\ ~loading)
    /\ View.idle => (~View.result /\ ~View.banner)

\* With no columns and at least one row the render does not fail and has no
\* header cell and no data cell: one empty row element per row.
Fact_NoColumnsEmptyRows ==
    (ValidPayload(response) /\ Columns = <<>> /\ Len(Rows) >= 1)
        => /\ ~View.crashed
           /\ View.table.header = <<>>
           /\ View.table.body = [i \in 1..Len(Rows) |-> <<>>]

\* The message of a non-2xx reply is its body, else derived from the status.
Fact_Non2xxMessage ==
    [][\A i \in 1..Len(calls) :
          (calls[i].pc = "text" /\ SettlesNow(i))
              => error' = Str(IF calls[i].res.text # ""
                              THEN calls[i].res.text
                              ELSE "Request failed with status "
                                       \o ToString(calls[i].res.status))]_vars

\* The grid is the projection on columns when no column is named like a
\* member of Object.prototype.
Fact_GridForOrdinaryColumns ==
    (/\ ValidPayload(response)
     /\ Len(Rows) >= 1
     /\ \A j \in 1..Len(Columns) : Columns[j] \notin DOMAIN ObjectPrototype)
        => /\ View.table.header = Columns
           /\ View.table.body =
                  [i \in 1..Len(Rows) |->
                      [j \in 1..Len(Columns) |-> ExpectedCell(Rows[i], Columns[j])]]

\* The summary block is rendered exactly for a non-empty string.
Fact_SummaryIffNonEmpty ==
    View.result
        => (View.summary.shown
               <=> /\ GetProp(response, "summary").t = "string"
                   /\ GetProp(response, "summary").v # "")

====
